---- MODULE Spec2Model ----
(***************************************************************************)
(* A model of jsch/consumers.go: the consumer configuration record, the    *)
(* functional options that mutate it, the build / load / load-or-build     *)
(* request exchanges with the JetStream service, and the Consumer handle.  *)
(***************************************************************************)
EXTENDS Integers, Sequences, FiniteSets, TLC

VARIABLES
    DefaultConsumer,        \* package variable, consumers.go:28
    SampledDefaultConsumer, \* package variable, consumers.go:36
    now,                    \* the wall clock read by time.Now()
    optTemplate,            \* NewConsumerConfiguration: the template argument
    optList,                \* NewConsumerConfiguration: the opts argument
    optRet,                 \* NewConsumerConfiguration: what it returned
    optPc,                  \* NewConsumerConfiguration: "call" before, "returned" after
    srv,                    \* the consumers the JetStream service holds
    handle,                 \* each caller's *Consumer variable
    call,                   \* each caller's operation in progress
    reached,                \* per caller: operation families that reached the transport
    active                  \* the callers that run operations

vars == <<DefaultConsumer, SampledDefaultConsumer, now, optTemplate, optList,
          optRet, optPc, srv, handle, call, reached, active>>

(***************************************************************************)
(* Bounds.                                                                 *)
(***************************************************************************)
\* longest list of options passed to one call
MaxOpts == 2

(***************************************************************************)
(* time.Time and time.Duration.  A Time is a calendar year and the seconds *)
(* elapsed in it; a Duration is a number of seconds.                       *)
(***************************************************************************)
SecondsPerYear == 365 * 24 * 3600

Time(y, s) == [year |-> y, sec |-> s]

\* the zero time.Time: January 1, year 1
ZeroTime == Time(1, 0)

\* t.Add(d)
TimeAdd(t, d) ==
    LET total == t.sec + d
    IN  Time(t.year + (total \div SecondsPerYear), total % SecondsPerYear)

(***************************************************************************)
(* server.ObservableConfig, with the values the package variables hold.    *)
(***************************************************************************)
NoErr == ""

ZeroConfig ==
    [ Delivery        |-> "",
      Durable         |-> "",
      MsgSetSeq       |-> 0,
      StartTime       |-> ZeroTime,
      DeliverAll      |-> FALSE,
      DeliverLast     |-> FALSE,
      AckPolicy       |-> "AckNone",
      AckWait         |-> 0,
      MaxDeliver      |-> 0,
      FilterSubject   |-> "",
      ReplayPolicy    |-> "ReplayInstant",
      SampleFrequency |-> "" ]

DefaultConsumerValue ==
    [ZeroConfig EXCEPT !.DeliverAll   = TRUE,
                       !.AckPolicy    = "AckExplicit",
                       !.AckWait      = 30,
                       !.ReplayPolicy = "ReplayInstant"]

SampledDefaultConsumerValue ==
    [ZeroConfig EXCEPT !.DeliverAll      = TRUE,
                       !.AckPolicy       = "AckExplicit",
                       !.AckWait         = 30,
                       !.ReplayPolicy    = "ReplayInstant",
                       !.SampleFrequency = "100%"]

(***************************************************************************)
(* ConsumerOption.  An option value is the closure a constructor returns:  *)
(* the constructor's name and its captured argument.                       *)
(***************************************************************************)
Opt(op, s, n, t) == [op |-> op, s |-> s, n |-> n, t |-> t]

DeliverySubject(s)       == Opt("DeliverySubject", s, 0, ZeroTime)
DurableName(s)           == Opt("DurableName", s, 0, ZeroTime)
StartAtSequence(s)       == Opt("StartAtSequence", "", s, ZeroTime)
StartAtTime(t)           == Opt("StartAtTime", "", 0, t)
DeliverAllAvailable      == Opt("DeliverAllAvailable", "", 0, ZeroTime)
StartWithLastReceived    == Opt("StartWithLastReceived", "", 0, ZeroTime)
StartAtTimeDelta(d)      == Opt("StartAtTimeDelta", "", d, ZeroTime)
AcknowledgeNone          == Opt("AcknowledgeNone", "", 0, ZeroTime)
AcknowledgeAll           == Opt("AcknowledgeAll", "", 0, ZeroTime)
AcknowledgeExplicit      == Opt("AcknowledgeExplicit", "", 0, ZeroTime)
AckWait(t)               == Opt("AckWait", "", t, ZeroTime)
MaxDeliveryAttempts(n)   == Opt("MaxDeliveryAttempts", "", n, ZeroTime)
FilterStreamBySubject(s) == Opt("FilterStreamBySubject", s, 0, ZeroTime)
ReplayInstantly          == Opt("ReplayInstantly", "", 0, ZeroTime)
ReplayAsReceived         == Opt("ReplayAsReceived", "", 0, ZeroTime)
SamplePercent(i)         == Opt("SamplePercent", "", i, ZeroTime)

\* what an option function returns: the descriptor behind the pointer, and the error
Applied(o, err) == [cfg |-> o, err |-> err]

\* a variant that rejects every n below 1
ApplyMaxDeliveryAttempts_RejectsNegative(n, o) ==
    IF n <= 0
    THEN Applied(o, "configuration would prevent all deliveries")
    ELSE Applied([o EXCEPT !.MaxDeliver = n], NoErr)

\* a variant that also asks for explicit acknowledgements
ApplyMaxDeliveryAttempts_SetsAckPolicy(n, o) ==
    IF n = 0
    THEN Applied(o, "configuration would prevent all deliveries")
    ELSE Applied([o EXCEPT !.MaxDeliver = n, !.AckPolicy = "AckExplicit"], NoErr)

ApplyMaxDeliveryAttempts(n, o) ==
    IF n = 0
    THEN Applied(o, "configuration would prevent all deliveries")
    ELSE Applied([o EXCEPT !.MaxDeliver = n], NoErr)

\* a variant without the i == 0 case
ApplySamplePercent_NoClear(i, o) ==
    IF i < 0 \/ i > 100
    THEN Applied(o, "sample percent must be 0-100")
    ELSE Applied([o EXCEPT !.SampleFrequency = ToString(i) \o "%"], NoErr)

ApplySamplePercent(i, o) ==
    IF i < 0 \/ i > 100
    THEN Applied(o, "sample percent must be 0-100")
    ELSE IF i = 0
         THEN Applied([o EXCEPT !.SampleFrequency = ""], NoErr)
         ELSE Applied([o EXCEPT !.SampleFrequency = ToString(i) \o "%"], NoErr)

\* the call o(&template) of option opt on descriptor o, the clock reading clk
Apply(opt, o, clk) ==
    CASE opt.op = "DeliverySubject"       -> Applied([o EXCEPT !.Delivery = opt.s], NoErr)
      [] opt.op = "DurableName"           -> Applied([o EXCEPT !.Durable = opt.s], NoErr)
      [] opt.op = "StartAtSequence"       -> Applied([o EXCEPT !.MsgSetSeq = opt.n], NoErr)
      [] opt.op = "StartAtTime"           -> Applied([o EXCEPT !.StartTime = opt.t], NoErr)
      [] opt.op = "DeliverAllAvailable"   -> Applied([o EXCEPT !.DeliverAll = TRUE], NoErr)
      [] opt.op = "StartWithLastReceived" -> Applied([o EXCEPT !.DeliverLast = TRUE], NoErr)
      [] opt.op = "StartAtTimeDelta"      ->
             Applied([o EXCEPT !.StartTime = TimeAdd(clk, (-1) * opt.n)], NoErr)
      [] opt.op = "AcknowledgeNone"       -> Applied([o EXCEPT !.AckPolicy = "AckNone"], NoErr)
      [] opt.op = "AcknowledgeAll"        -> Applied([o EXCEPT !.AckPolicy = "AckAll"], NoErr)
      [] opt.op = "AcknowledgeExplicit"   -> Applied([o EXCEPT !.AckPolicy = "AckExplicit"], NoErr)
      [] opt.op = "AckWait"               -> Applied([o EXCEPT !.AckWait = opt.n], NoErr)
      [] opt.op = "MaxDeliveryAttempts"   -> ApplyMaxDeliveryAttempts(opt.n, o)
      [] opt.op = "FilterStreamBySubject" -> Applied([o EXCEPT !.FilterSubject = opt.s], NoErr)
      [] opt.op = "ReplayInstantly"       -> Applied([o EXCEPT !.ReplayPolicy = "ReplayInstant"], NoErr)
      [] opt.op = "ReplayAsReceived"      -> Applied([o EXCEPT !.ReplayPolicy = "ReplayOriginal"], NoErr)
      [] opt.op = "SamplePercent"         -> ApplySamplePercent(opt.n, o)

\* the loop of NewConsumerConfiguration from option i on, template being the
\* function's own copy of its argument
RECURSIVE ConfigureFrom(_, _, _, _)
ConfigureFrom(template, opts, i, clk) ==
    IF i > Len(opts)
    THEN Applied(template, NoErr)
    ELSE LET r == Apply(opts[i], template, clk)
         IN  IF r.err # NoErr
             THEN Applied(r.cfg, r.err)
             ELSE ConfigureFrom(r.cfg, opts, i + 1, clk)

NewConsumerConfiguration(template, opts, clk) == ConfigureFrom(template, opts, 1, clk)

(***************************************************************************)
(* Consumer: the handle and its query methods.                             *)
(***************************************************************************)
JetStreamRequestNextPre == "$JS.RN"
JetStreamObservableAckSamplePre == "$JS.OBSERVABLE.ACKSAMPLE"

Consumer(name, stream, cfg) ==
    [name |-> name, stream |-> stream, cfg |-> cfg, nil |-> FALSE]

Name(c)            == c.name
StreamName(c)      == c.stream
Configuration(c)   == c.cfg
SampleFrequency(c) == c.cfg.SampleFrequency
ConsumerDeliverySubject(c) == c.cfg.Delivery
IsDurable(c)       == c.cfg.Durable # ""

IsPullMode(c) == c.cfg.Delivery = ""

\* a variant that takes every consumer for a push-mode one
IsPushMode_Always(c) == TRUE

IsPushMode(c) == ~IsPullMode(c)

\* a variant without the pull-mode test
NextSubject_NoGuard(c) ==
    JetStreamRequestNextPre \o "." \o c.stream \o "." \o c.name

NextSubject(c) ==
    IF ~IsPullMode(c)
    THEN ""
    ELSE JetStreamRequestNextPre \o "." \o c.stream \o "." \o c.name

SampleSubject(c) ==
    IF SampleFrequency(c) = ""
    THEN ""
    ELSE JetStreamObservableAckSamplePre \o "." \o StreamName(c) \o "." \o c.name

IsSampled(c) == SampleSubject(c) # ""

(***************************************************************************)
(* Inputs.                                                                 *)
(***************************************************************************)
Streams == {"ORDERS"}
\* the consumer names callers ask for, and those of them the service can hold
Names    == {"d1", "d2"}
Durables == {"d1"}
Callers == {"c1", "c2"}

InitialClock == Time(2020, 100)

StartOptions ==
    { DeliverAllAvailable, StartWithLastReceived, StartAtSequence(5),
      StartAtTime(Time(2019, 0)), StartAtTimeDelta(60) }

\* the options drawn for every position of an option list
CoreOptions ==
    StartOptions \cup
    { DeliverySubject("out"), DurableName("d1"),
      AcknowledgeNone, AcknowledgeAll, AcknowledgeExplicit, AckWait(10),
      MaxDeliveryAttempts(0), MaxDeliveryAttempts(3),
      FilterStreamBySubject("f"), ReplayInstantly, ReplayAsReceived,
      SamplePercent(0), SamplePercent(50), SamplePercent(101) }

\* the options drawn for the last position only: the whole argument ranges
LastOptions ==
    CoreOptions \cup
    { MaxDeliveryAttempts(n) : n \in -3 .. 3 } \cup
    { SamplePercent(i) : i \in -2 .. 102 } \cup
    { DurableName("d2"), DurableName(""), DeliverySubject(""),
      StartAtSequence(7), StartAtTime(Time(10000, 0)), StartAtTimeDelta(200) }

RECURSIVE ListsOf(_)
ListsOf(k) ==
    IF k = 0
    THEN { <<>> }
    ELSE { Append(l, o) : l \in ListsOf(k - 1), o \in CoreOptions }

OptLists ==
    { <<>> } \cup
    UNION { { Append(l, o) : l \in ListsOf(k), o \in LastOptions } : k \in 0 .. (MaxOpts - 1) }

Templates == { DefaultConsumerValue, SampledDefaultConsumerValue }

(***************************************************************************)
(* Initial values of the state the network operations use.                 *)
(***************************************************************************)
NoConsumer == [name |-> "", stream |-> "", cfg |-> ZeroConfig, nil |-> TRUE]

InitShared ==
    /\ DefaultConsumer = DefaultConsumerValue
    /\ SampledDefaultConsumer = SampledDefaultConsumerValue
    /\ now = InitialClock

(***************************************************************************)
(* The transport (nc.Request, nc.Subscribe) and the JetStream service      *)
(* behind it.  A response is the message's Data and, when Data is a JSON   *)
(* document, the value it decodes to.                                      *)
(***************************************************************************)
OK        == "+OK"
ErrPrefix == "-ERR"

\* a variant that finds every prefix
HasPrefix_Always(s, prefix) == TRUE

\* strings.HasPrefix
HasPrefix(s, prefix) == Len(s) >= Len(prefix) /\ SubSeq(s, 1, Len(prefix)) = prefix

ObservableInfo(cfg, state) == [Config |-> cfg, State |-> state]

ZeroInfo == ObservableInfo(ZeroConfig, 0)

Response(data, json, err) == [Data |-> data, json |-> json, err |-> err]

TransportError == Response("", ZeroInfo, "nats: timeout")

IsErrorResponse(m) == HasPrefix(m.Data, ErrPrefix)

IsOKResponse(m) == HasPrefix(m.Data, OK)

\* json.Unmarshal(response.Data, &info)
Unmarshal(m) ==
    IF HasPrefix(m.Data, "{")
    THEN [info |-> m.json, err |-> NoErr]
    ELSE [info |-> ZeroInfo, err |-> "invalid character looking for beginning of value"]

\* json.Marshal(req): time.Time refuses years outside 0..9999
MarshalErr(stream, cfg) ==
    IF cfg.StartTime.year < 0 \/ cfg.StartTime.year >= 10000
    THEN "json: error calling MarshalJSON for type time.Time"
    ELSE NoErr

\* a consumer the service holds, or the absence of one
Held(cfg)  == [exists |-> TRUE, cfg |-> cfg]
NotHeld    == [exists |-> FALSE, cfg |-> ZeroConfig]
Keys       == Streams \X Durables

\* the responses the transport can hand back to a create request
CreateResponses ==
    { TransportError,
      Response(ErrPrefix \o " 'observable create failed'", ZeroInfo, NoErr),
      Response(OK, ZeroInfo, NoErr) }

\* the operational state (server.ObservableState) the service reports for a
\* consumer it holds; the zero value stands for ObservableState{}
LiveState == 1

\* the responses the transport can hand back to an info request for key
InfoResponses(key) ==
    { TransportError, Response("garbage", ZeroInfo, NoErr) } \cup
    IF key \in Keys /\ srv[key].exists
    THEN { Response("{...}", ObservableInfo(srv[key].cfg, LiveState), NoErr) }
    ELSE { Response(ErrPrefix \o " 'observable not found'", ZeroInfo, NoErr) }

\* the responses the transport can hand back to a delete request for key
DeleteResponses(key) ==
    { TransportError, Response("garbage", ZeroInfo, NoErr) } \cup
    IF key \in Keys /\ srv[key].exists
    THEN { Response(OK, ZeroInfo, NoErr) }
    ELSE { Response(ErrPrefix \o " 'observable not found'", ZeroInfo, NoErr) }

\* what nc.Request returned, as kept in the record of a call
Reply(m) == [Data |-> m.Data, err |-> m.err]

\* how the transport answered a request: with an error of its own, with a
\* message that carries the error marker, or with any other message
Outcome(m) ==
    IF m.err # NoErr THEN "transport"
    ELSE IF Len(m.Data) >= Len(ErrPrefix)
            /\ SubSeq(m.Data, 1, Len(ErrPrefix)) = ErrPrefix THEN "response"
    ELSE "reply"

\* a request or subscription handed to the transport
Sent(subject, stream, name, cfg) ==
    [subject |-> subject, stream |-> stream, name |-> name, cfg |-> cfg]

(***************************************************************************)
(* A caller's operation: its arguments, its locals, where it stands, what  *)
(* it handed to the transport and what it returned.  at is the line of the *)
(* return statement taken.                                                 *)
(***************************************************************************)
Returned(consumer, err) == [consumer |-> consumer, err |-> err]

NewCall(op, stream, name) ==
    [ op       |-> op,
      pc       |-> "done",
      stream   |-> stream,
      name     |-> name,
      template |-> ZeroConfig,
      opts     |-> <<>>,
      cfg      |-> ZeroConfig,
      sent     |-> <<>>,
      replies  |-> <<>>,
      buildAt  |-> 0,
      at       |-> 0,
      created  |-> FALSE,
      loadFailed |-> "",
      stats    |-> 0,
      ret      |-> Returned(NoConsumer, NoErr) ]

Return(c, line, consumer, err) ==
    [c EXCEPT !.pc = "done", !.at = line, !.ret = Returned(consumer, err)]

\* a variant that goes on to the create request when an option failed
BuildStart_IgnoresError(c, stream, template, opts) ==
    LET r  == NewConsumerConfiguration(template, opts, now)
        c1 == [c EXCEPT !.buildAt = Len(c.sent) + 1, !.template = template,
                        !.opts = opts]
    IN  IF MarshalErr(stream, r.cfg) # NoErr
        THEN Return(c1, 68, NoConsumer, MarshalErr(stream, r.cfg))
        ELSE [c1 EXCEPT !.pc = "create", !.cfg = r.cfg]

\* NewConsumerFromTemplate up to its create request: lines 56-69
BuildStart(c, stream, template, opts) ==
    LET r  == NewConsumerConfiguration(template, opts, now)
        c1 == [c EXCEPT !.buildAt = Len(c.sent) + 1, !.template = template,
                        !.opts = opts]
    IN  IF r.err # NoErr
        THEN Return(c1, 58, NoConsumer, r.err)
        ELSE IF MarshalErr(stream, r.cfg) # NoErr
             THEN Return(c1, 68, NoConsumer, MarshalErr(stream, r.cfg))
             ELSE [c1 EXCEPT !.pc = "create", !.cfg = r.cfg]

\* the option lists passed to the operations that build
NetOptLists ==
    { <<>>,
      <<DurableName("d1")>>,
      <<DurableName("d1"), DeliverySubject("out")>>,
      <<MaxDeliveryAttempts(0)>>,
      <<DurableName("d1"), MaxDeliveryAttempts(0)>>,
      <<DurableName("d1"), StartAtTime(Time(10000, 0))>> }

\* what other clients of the service can make it hold under key
OutOfBandEntries(key) ==
    { NotHeld,
      Held([DefaultConsumerValue EXCEPT !.Durable = key[2]]),
      Held([DefaultConsumerValue EXCEPT !.Durable = key[2], !.Delivery = "out"]) }

\* a variant that goes on to decode when the transport returned an error
LoadConsumerInfo_SwallowsTransport(m) ==
    IF m.err # NoErr
    THEN [info |-> ZeroInfo, err |-> NoErr]
    ELSE IF IsErrorResponse(m)
         THEN [info |-> ZeroInfo, err |-> m.Data]
         ELSE Unmarshal(m)

\* loadConsumerInfo once the transport handed back m: lines 147-161
LoadConsumerInfo(m) ==
    IF m.err # NoErr
    THEN [info |-> ZeroInfo, err |-> m.err]
    ELSE IF IsErrorResponse(m)
         THEN [info |-> ZeroInfo, err |-> m.Data]
         ELSE Unmarshal(m)

\* a variant that stores the configuration it got whether or not it got one
LoadConfigForConsumer_StoresAnyway(consumer, m) ==
    LET r == LoadConsumerInfo(m)
    IN  [consumer |-> [consumer EXCEPT !.cfg = r.info.Config], err |-> r.err]

\* loadConfigForConsumer(consumer) once the transport handed back m: lines
\* 134-143; consumer is what the pointer leads to afterwards
LoadConfigForConsumer(consumer, m) ==
    LET r == LoadConsumerInfo(m)
    IN  IF r.err # NoErr
        THEN [consumer |-> consumer, err |-> r.err]
        ELSE [consumer |-> [consumer EXCEPT !.cfg = r.info.Config], err |-> NoErr]

\* a variant that returns the consumer without the configuration it loaded
LoadConsumerResult_Unpopulated(stream, name, m) ==
    LET r == LoadConsumerInfo(m)
    IN  IF r.err # NoErr
        THEN Returned(NoConsumer, r.err)
        ELSE Returned(Consumer(name, stream, ZeroConfig), NoErr)

\* a variant that returns the consumer it built along with the error
LoadConsumerResult_KeepsConsumer(stream, name, m) ==
    LET r == LoadConsumerInfo(m)
    IN  IF r.err # NoErr
        THEN Returned(Consumer(name, stream, ZeroConfig), r.err)
        ELSE Returned(Consumer(name, stream, r.info.Config), NoErr)

\* a variant that fills name and stream the wrong way round
LoadConsumerResult_Swapped(stream, name, m) ==
    LET r == LoadConsumerInfo(m)
    IN  IF r.err # NoErr
        THEN Returned(NoConsumer, r.err)
        ELSE Returned(Consumer(stream, name, r.info.Config), NoErr)

\* LoadConsumer(stream, name) once the transport handed back m: lines 108-120
\* with loadConfigForConsumer, lines 134-143
LoadConsumerResult(stream, name, m) ==
    LET r == LoadConsumerInfo(m)
    IN  IF r.err # NoErr
        THEN Returned(NoConsumer, r.err)
        ELSE Returned(Consumer(name, stream, r.info.Config), NoErr)

\* a variant that falls through to the build only when no consumer was found
LoadFailed_NotFoundOnly(r) == HasPrefix(r.err, ErrPrefix)

\* LoadOrNewConsumerFromTemplate's test of what LoadConsumer returned: line 100
LoadFailed(r) == r.consumer.nil \/ r.err # NoErr

InfoRequest(stream, name) == Sent("JetStreamObservableInfo", stream, name, ZeroConfig)

InitNet ==
    /\ srv = [k \in Keys |-> NotHeld]
    /\ handle = [p \in Callers |-> NoConsumer]
    /\ call = [p \in Callers |-> NewCall("idle", "", "")]
    /\ reached = [p \in Callers |-> {}]
    /\ active = {"c1"}

Init ==
    /\ InitShared
    /\ InitNet
    /\ optTemplate = DefaultConsumerValue
    /\ optList = <<>>
    /\ optRet = Applied(ZeroConfig, NoErr)
    /\ optPc = "unused"

Idle(p) == call[p].pc = "done"

\* a variant in which every call hands out the one Consumer of the package
Receive_Shared(p, c) ==
    IF c.pc = "done" /\ ~c.ret.consumer.nil
    THEN /\ handle' = [q \in Callers |-> c.ret.consumer]
         /\ reached' = [reached EXCEPT ![p] = {}]
    ELSE UNCHANGED <<handle, reached>>

\* the caller stores the *Consumer an operation returned, when it returned one
Receive(p, c) ==
    IF c.pc = "done" /\ ~c.ret.consumer.nil
    THEN /\ handle' = [handle EXCEPT ![p] = c.ret.consumer]
         /\ reached' = [reached EXCEPT ![p] = {}]
    ELSE UNCHANGED <<handle, reached>>

Globals == <<DefaultConsumer, SampledDefaultConsumer, now, optTemplate, optList,
             optRet, optPc, active>>

\* NewConsumerFromTemplate (and NewConsumer, its call with DefaultConsumer),
\* from the call to the create request
NewConsumerFromTemplate(p) ==
    /\ Idle(p)
    /\ \E stream \in Streams, template \in {DefaultConsumer, SampledDefaultConsumer},
          opts \in NetOptLists :
         call' = [call EXCEPT ![p] =
                    BuildStart(NewCall("NewConsumerFromTemplate", stream, ""),
                               stream, template, opts)]
    /\ UNCHANGED <<Globals, srv, handle, reached>>

\* NewConsumerFromTemplate: the create request and what follows its response,
\* lines 71-84 up to the call of LoadConsumer
CreateRequest(p) ==
    /\ call[p].pc = "create"
    /\ \E m \in CreateResponses :
         LET c0  == call[p]
             key == <<c0.stream, c0.cfg.Durable>>
             \* the service answers OK exactly when it created the consumer
             did == m.err = NoErr /\ m.Data = OK
             c1  == [c0 EXCEPT !.sent = Append(@, Sent("JetStreamCreateObservable",
                                                       c0.stream, "", c0.cfg)),
                               !.replies = Append(@, Reply(m)),
                               !.created = did]
         IN  /\ srv' = IF did /\ key \in Keys
                       THEN [srv EXCEPT ![key] = Held(c0.cfg)]
                       ELSE srv
             /\ call' = [call EXCEPT ![p] =
                           IF m.err # NoErr
                           THEN Return(c1, 73, NoConsumer, m.err)
                           ELSE IF ~HasPrefix(m.Data, OK)
                           THEN Return(c1, 77, NoConsumer, m.Data)
                           ELSE IF c0.cfg.Durable # ""
                           THEN [c1 EXCEPT !.pc = "reload"]
                           ELSE Return(c1, 84, NoConsumer, NoErr)]
    /\ UNCHANGED <<Globals, handle, reached>>

\* NewConsumerFromTemplate: return LoadConsumer(stream, cfg.Durable), line 81
Reload(p) ==
    /\ call[p].pc = "reload"
    /\ \E m \in InfoResponses(<<call[p].stream, call[p].cfg.Durable>>) :
         LET c0 == call[p]
             c1 == [c0 EXCEPT !.sent = Append(@, InfoRequest(c0.stream, c0.cfg.Durable)),
                              !.replies = Append(@, Reply(m))]
             r  == LoadConsumerResult(c0.stream, c0.cfg.Durable, m)
             c2 == Return(c1, 81, r.consumer, r.err)
         IN  /\ call' = [call EXCEPT ![p] = c2]
             /\ Receive(p, c2)
    /\ UNCHANGED <<Globals, srv>>

\* LoadConsumer called by the caller
LoadConsumer(p) ==
    /\ Idle(p)
    /\ \E stream \in Streams, name \in Names :
       \E m \in InfoResponses(<<stream, name>>) :
         LET c0 == NewCall("LoadConsumer", stream, name)
             c1 == [c0 EXCEPT !.sent = <<InfoRequest(stream, name)>>,
                              !.replies = <<Reply(m)>>]
             r  == LoadConsumerResult(stream, name, m)
             c2 == Return(c1, IF r.err # NoErr THEN 116 ELSE 119, r.consumer, r.err)
         IN  /\ call' = [call EXCEPT ![p] = c2]
             /\ Receive(p, c2)
    /\ UNCHANGED <<Globals, srv>>

\* LoadOrNewConsumerFromTemplate (and LoadOrNewConsumer, its call with
\* DefaultConsumer): the load, and on its failure NewConsumerFromTemplate up
\* to the create request
LoadOrNewConsumerFromTemplate(p) ==
    /\ Idle(p)
    /\ \E stream \in Streams, name \in Names,
          template \in {DefaultConsumer, SampledDefaultConsumer},
          opts \in NetOptLists :
       \E m \in InfoResponses(<<stream, name>>) :
         LET c0 == NewCall("LoadOrNewConsumerFromTemplate", stream, name)
             c1 == [c0 EXCEPT !.sent = <<InfoRequest(stream, name)>>,
                              !.replies = <<Reply(m)>>,
                              !.template = template,
                              !.opts = opts,
                              !.loadFailed = IF m.err # NoErr THEN "transport"
                                             ELSE IF IsErrorResponse(m) THEN "response"
                                             ELSE IF Unmarshal(m).err # NoErr THEN "parse"
                                             ELSE ""]
             r  == LoadConsumerResult(stream, name, m)
             c2 == IF LoadFailed(r)
                   THEN BuildStart(c1, stream, template, opts)
                   ELSE Return(c1, 104, r.consumer, r.err)
         IN  /\ call' = [call EXCEPT ![p] = c2]
             /\ Receive(p, c2)
    /\ UNCHANGED <<Globals, srv>>

\* Consumer.Reset
Reset(p) ==
    /\ Idle(p)
    /\ ~handle[p].nil
    /\ \E m \in InfoResponses(<<handle[p].stream, handle[p].name>>) :
         LET h  == handle[p]
             c0 == NewCall("Reset", h.stream, h.name)
             c1 == [c0 EXCEPT !.sent = <<InfoRequest(h.stream, h.name)>>,
                              !.replies = <<Reply(m)>>]
             r  == LoadConfigForConsumer(h, m)
         IN  /\ call' = [call EXCEPT ![p] =
                           Return(c1, IF r.err # NoErr THEN 137 ELSE 142,
                                  NoConsumer, r.err)]
             /\ handle' = [handle EXCEPT ![p] = r.consumer]
    /\ UNCHANGED <<Globals, srv, reached>>

\* a variant that also stores the configuration of the response
StateResult_Refreshes(consumer, m) ==
    LET r == LoadConsumerInfo(m)
    IN  IF r.err # NoErr
        THEN [consumer |-> consumer, stats |-> 0, err |-> r.err]
        ELSE [consumer |-> [consumer EXCEPT !.cfg = r.info.Config],
              stats |-> r.info.State, err |-> NoErr]

\* Consumer.State once the transport handed back m: lines 390-395; consumer
\* is what the receiver is afterwards, stats the server.ObservableState
\* returned (0 for ObservableState{})
StateResult(consumer, m) ==
    LET r == LoadConsumerInfo(m)
    IN  IF r.err # NoErr
        THEN [consumer |-> consumer, stats |-> 0, err |-> r.err]
        ELSE [consumer |-> consumer, stats |-> r.info.State, err |-> NoErr]

\* Consumer.State
State(p) ==
    /\ Idle(p)
    /\ ~handle[p].nil
    /\ \E m \in InfoResponses(<<handle[p].stream, handle[p].name>>) :
         LET h  == handle[p]
             c0 == NewCall("State", h.stream, h.name)
             c1 == [c0 EXCEPT !.sent = <<InfoRequest(h.stream, h.name)>>,
                              !.replies = <<Reply(m)>>]
             r  == StateResult(h, m)
         IN  /\ call' = [call EXCEPT ![p] =
                           Return([c1 EXCEPT !.stats = r.stats],
                                  IF r.err # NoErr THEN 392 ELSE 395,
                                  NoConsumer, r.err)]
             /\ handle' = [handle EXCEPT ![p] = r.consumer]
    /\ UNCHANGED <<Globals, srv, reached>>

\* a variant that takes a response it does not know for success
DeleteResult_UnknownIsSuccess(c, name, m) ==
    IF m.err # NoErr
    THEN Return(c, 407, NoConsumer, m.err)
    ELSE IF IsErrorResponse(m)
    THEN Return(c, 411, NoConsumer, m.Data)
    ELSE Return(c, 415, NoConsumer, NoErr)

\* fmt.Errorf("unknown response while removing consumer %s: %q", name, data)
UnknownResponse(name, data) ==
    "unknown response while removing consumer " \o name \o ": \"" \o data \o "\""

\* Consumer.Delete once the transport handed back m: lines 406-418
DeleteResult(c, name, m) ==
    IF m.err # NoErr
    THEN Return(c, 407, NoConsumer, m.err)
    ELSE IF IsErrorResponse(m)
    THEN Return(c, 411, NoConsumer, m.Data)
    ELSE IF IsOKResponse(m)
    THEN Return(c, 415, NoConsumer, NoErr)
    ELSE Return(c, 418, NoConsumer, UnknownResponse(name, m.Data))

\* Consumer.Delete
Delete(p) ==
    /\ Idle(p)
    /\ ~handle[p].nil
    /\ \E m \in DeleteResponses(<<StreamName(handle[p]), Name(handle[p])>>) :
         LET h   == handle[p]
             key == <<StreamName(h), Name(h)>>
             c0  == NewCall("Delete", h.stream, h.name)
             c1  == [c0 EXCEPT !.sent = <<Sent("JetStreamDeleteObservable",
                                                StreamName(h), Name(h), ZeroConfig)>>,
                               !.replies = <<Reply(m)>>]
         IN  /\ call' = [call EXCEPT ![p] = DeleteResult(c1, Name(h), m)]
             /\ srv' = IF m.err = NoErr /\ m.Data = OK
                       THEN [srv EXCEPT ![key] = NotHeld]
                       ELSE srv
    /\ UNCHANGED <<Globals, handle, reached>>

SubscribeVariants ==
    { "Subscribe", "ChanSubscribe", "ChanQueueSubscribe", "SubscribeSync",
      "QueueSubscribe", "QueueSubscribeSync", "QueueSubscribeSyncWithChan" }

\* what nc.Subscribe and its variants, and nc.Request on the next subject, return
TransportResults == { NoErr, "nats: connection closed" }

\* Consumer.Subscribe and its six variants
Subscribe(p) ==
    /\ Idle(p)
    /\ ~handle[p].nil
    /\ \E variant \in SubscribeVariants, err \in TransportResults :
         LET h  == handle[p]
             c0 == NewCall(variant, h.stream, h.name)
         IN  IF ~IsPushMode(h)
             THEN /\ call' = [call EXCEPT ![p] =
                                Return(c0, 314, NoConsumer, "consumer is not push-based")]
                  /\ UNCHANGED reached
             ELSE /\ call' = [call EXCEPT ![p] =
                                Return([c0 EXCEPT !.sent =
                                          <<Sent(ConsumerDeliverySubject(h), h.stream,
                                                 h.name, ZeroConfig)>>,
                                          !.replies = <<Reply(Response("", ZeroInfo, err))>>],
                                       317, NoConsumer, err)]
                  /\ reached' = [reached EXCEPT ![p] = @ \cup {"push"}]
    /\ UNCHANGED <<Globals, srv, handle>>

\* Consumer.NextMsgs (and NextMsg, its call with 1)
NextMsgs(p) ==
    /\ Idle(p)
    /\ ~handle[p].nil
    /\ \E n \in {1, 2}, err \in TransportResults :
         LET h  == handle[p]
             c0 == NewCall(IF n = 1 THEN "NextMsg" ELSE "NextMsgs", h.stream, h.name)
         IN  IF ~IsPullMode(h)
             THEN /\ call' = [call EXCEPT ![p] =
                                Return(c0, 377, NoConsumer, "consumer is not pull-based")]
                  /\ UNCHANGED reached
             ELSE /\ call' = [call EXCEPT ![p] =
                                Return([c0 EXCEPT !.sent =
                                          <<Sent(NextSubject(h), h.stream, h.name,
                                                 ZeroConfig)>>,
                                          !.replies = <<Reply(Response("", ZeroInfo, err))>>],
                                       380, NoConsumer, err)]
                  /\ reached' = [reached EXCEPT ![p] = @ \cup {"pull"}]
    /\ UNCHANGED <<Globals, srv, handle>>

\* another client of the service creates, replaces or deletes a consumer
OutOfBand ==
    /\ \E key \in Keys : \E entry \in OutOfBandEntries(key) :
         /\ srv[key] # entry
         /\ srv' = [srv EXCEPT ![key] = entry]
    /\ UNCHANGED <<Globals, handle, call, reached>>

Next ==
    \/ \E p \in active : NewConsumerFromTemplate(p)
    \/ \E p \in active : CreateRequest(p)
    \/ \E p \in active : Reload(p)
    \/ \E p \in active : LoadConsumer(p)
    \/ \E p \in active : LoadOrNewConsumerFromTemplate(p)
    \/ \E p \in active : Reset(p)
    \/ \E p \in active : State(p)
    \/ \E p \in active : Delete(p)
    \/ \E p \in active : Subscribe(p)
    \/ \E p \in active : NextMsgs(p)
    \/ OutOfBand

Spec == Init /\ [][Next]_vars

(***************************************************************************)
(* Concurrent callers: every caller runs builds, loads, resets and state   *)
(* queries, each on its own handle, their requests interleaved in any      *)
(* order.  All of them name the one consumer the service can hold here.    *)
(***************************************************************************)
ConcOptLists ==
    { <<DurableName("d1")>>, <<DurableName("d1"), DeliverySubject("out")>> }

InitConc ==
    /\ InitShared
    /\ srv = [k \in Keys |-> NotHeld]
    /\ handle = [p \in Callers |-> NoConsumer]
    /\ call = [p \in Callers |-> NewCall("idle", "", "")]
    /\ reached = [p \in Callers |-> {}]
    /\ active = Callers
    /\ optTemplate = DefaultConsumerValue
    /\ optList = <<>>
    /\ optRet = Applied(ZeroConfig, NoErr)
    /\ optPc = "unused"

ConcBuild(p) ==
    /\ NewConsumerFromTemplate(p)
    /\ call'[p].opts \in ConcOptLists

ConcLoad(p) ==
    /\ LoadConsumer(p)
    /\ call'[p].name \in Durables

NextConc ==
    \/ \E p \in active : ConcBuild(p)
    \/ \E p \in active : CreateRequest(p)
    \/ \E p \in active : Reload(p)
    \/ \E p \in active : ConcLoad(p)
    \/ \E p \in active : Reset(p)
    \/ \E p \in active : State(p)

SpecConc == InitConc /\ [][NextConc]_vars

(***************************************************************************)
(* The option protocol alone: NewConsumerConfiguration called once on a    *)
(* template and a list of options.                                         *)
(***************************************************************************)
InitOpt ==
    /\ InitShared
    /\ InitNet
    /\ optTemplate \in Templates
    /\ optList \in OptLists
    /\ optRet = Applied(ZeroConfig, NoErr)
    /\ optPc = "call"

Configure ==
    /\ optPc = "call"
    /\ optRet' = NewConsumerConfiguration(optTemplate, optList, now)
    /\ optPc' = "returned"
    /\ UNCHANGED <<DefaultConsumer, SampledDefaultConsumer, now, optTemplate,
                   optList, srv, handle, call, reached, active>>

NextOpt == Configure

SpecOpt == InitOpt /\ [][NextOpt]_vars

\* the options before the last one, and the last one
Front(l) == SubSeq(l, 1, Len(l) - 1)
Last(l)  == l[Len(l)]

\* the descriptor the last option of optList was applied to
BeforeLast == NewConsumerConfiguration(optTemplate, Front(optList), now)

\* NewConsumerConfiguration returned and its last option was reached
LastApplied(op) ==
    /\ optPc = "returned"
    /\ Len(optList) > 0
    /\ Last(optList).op = op
    /\ BeforeLast.err = NoErr

(* C1: MaxDeliveryAttempts(n) with n # 0, negative n included, succeeds and
   sets MaxDeliver to n, every other field kept; MaxDeliveryAttempts(0) fails
   and leaves every field of the descriptor as it was. *)
C1_MaxDeliveryAttempts ==
    LastApplied("MaxDeliveryAttempts") =>
        LET n == Last(optList).n
            before == BeforeLast.cfg
        IN  IF n # 0
            THEN /\ optRet.err = NoErr
                 /\ optRet.cfg = [before EXCEPT !.MaxDeliver = n]
            ELSE /\ optRet.err # NoErr
                 /\ optRet.cfg = before

C1_Witness ==
    /\ LastApplied("MaxDeliveryAttempts")
    /\ Last(optList).n < 0
    /\ optRet.cfg.MaxDeliver < 0
    /\ BeforeLast.cfg # optTemplate

C1_WitnessZero ==
    /\ LastApplied("MaxDeliveryAttempts")
    /\ Last(optList).n = 0
    /\ optRet.err # NoErr

(* C2: SamplePercent(i) succeeds for i in 0..100 and fails, leaving the
   descriptor as it was, for i outside; after SamplePercent(0) a handle
   holding the descriptor is not sampled and has an empty sample subject;
   after SamplePercent(i), i in 1..100, it is sampled. *)
C2_SamplePercent ==
    LastApplied("SamplePercent") =>
        LET i == Last(optList).n
            before == BeforeLast.cfg
        IN  /\ (i \in 0 .. 100) => optRet.err = NoErr
            /\ (i < 0 \/ i > 100) => (optRet.err # NoErr /\ optRet.cfg = before)
            /\ \A s \in Streams, n \in Names :
                 LET c == Consumer(n, s, optRet.cfg)
                 IN  /\ (i = 0) => (~IsSampled(c) /\ SampleSubject(c) = ""
                                     /\ SampleFrequency(c) = "")
                     /\ (i \in 1 .. 100) => IsSampled(c)

C2_Witness ==
    /\ LastApplied("SamplePercent")
    /\ Last(optList).n = 0
    /\ optTemplate = SampledDefaultConsumerValue
    /\ BeforeLast.cfg.SampleFrequency # ""
    /\ optRet.cfg.SampleFrequency = ""

\* the index of the first option of l that fails, Len(l) + 1 when none does
FirstFailing(l) ==
    LET failing == { k \in 1 .. Len(l) :
                       NewConsumerConfiguration(optTemplate, SubSeq(l, 1, k), now).err # NoErr }
    IN  IF failing = {} THEN Len(l) + 1
        ELSE CHOOSE k \in failing : \A j \in failing : k <= j

\* the template with the effects of the options before the first failing one
PartiallyMutated ==
    NewConsumerConfiguration(optTemplate,
                             SubSeq(optList, 1, FirstFailing(optList) - 1), now).cfg

\* options are applied in the order given, and none after the first failure
C3_InOrder ==
    (optPc = "returned" /\ Len(optList) > 0) =>
        IF BeforeLast.err = NoErr
        THEN optRet = Apply(Last(optList), BeforeLast.cfg, now)
        ELSE optRet = BeforeLast

\* a failed build hands no partially-mutated descriptor to its caller
C3_Discarded ==
    (optPc = "returned" /\ optRet.err # NoErr /\ PartiallyMutated # optTemplate) =>
        optRet.cfg # PartiallyMutated

(* C3: NewConsumerConfiguration applies the options strictly in order, applies
   none after the first that fails, and on failure the partially-mutated
   descriptor is discarded: it is not returned to the caller. *)
C3_OrderedAndDiscarded == C3_InOrder /\ C3_Discarded

\* the start positions a descriptor asks for
StartPositions(cfg) ==
    (IF cfg.DeliverAll THEN {"all"} ELSE {}) \cup
    (IF cfg.DeliverLast THEN {"last"} ELSE {}) \cup
    (IF cfg.MsgSetSeq # 0 THEN {"sequence"} ELSE {}) \cup
    (IF cfg.StartTime # ZeroTime THEN {"time"} ELSE {})

\* the start position a start-position option asks for
StartKind(opt) ==
    CASE opt.op = "DeliverAllAvailable"   -> "all"
      [] opt.op = "StartWithLastReceived" -> "last"
      [] opt.op = "StartAtSequence"       -> "sequence"
      [] opt.op = "StartAtTime"           -> "time"
      [] opt.op = "StartAtTimeDelta"      -> "time"

IsStartOption(opt) ==
    opt.op \in {"DeliverAllAvailable", "StartWithLastReceived", "StartAtSequence",
                "StartAtTime", "StartAtTimeDelta"}

\* the start-position option of l applied last
LastStart(l) ==
    l[CHOOSE k \in 1 .. Len(l) :
        /\ IsStartOption(l[k])
        /\ \A j \in (k + 1) .. Len(l) : ~IsStartOption(l[j])]

(* C5: when start-position options follow one another, or one follows the
   template's deliver-all, the start position of the resulting descriptor is
   the one the last of them set and no earlier one remains. *)
C5_LastStartWins ==
    (/\ optPc = "returned"
     /\ optRet.err = NoErr
     /\ \E k \in 1 .. Len(optList) : IsStartOption(optList[k])) =>
        StartPositions(optRet.cfg) = {StartKind(LastStart(optList))}

(***************************************************************************)
(* Properties of the operations that talk to the service.                  *)
(***************************************************************************)
\* NewConsumerFromTemplate ran in call c, called directly or by
\* LoadOrNewConsumerFromTemplate
IsBuild(c) == c.buildAt > 0

BuildDone(c) == IsBuild(c) /\ c.pc = "done"

\* what the build of call c handed to the transport
BuildSent(c) == SubSeq(c.sent, c.buildAt, Len(c.sent))

\* what the options of call c make of its template
Configured(c) == NewConsumerConfiguration(c.template, c.opts, now)

Creates(l) == { i \in DOMAIN l : l[i].subject = "JetStreamCreateObservable" }
Infos(l)   == { i \in DOMAIN l : l[i].subject = "JetStreamObservableInfo" }

(* C4: when an option of a build fails validation, the build returns that
   error and no handle, hands no request to the transport, creates nothing,
   and the package templates DefaultConsumer and SampledDefaultConsumer, one
   of which the caller passed in, are as they were. *)
C4_ValidationAborts ==
    \A p \in Callers :
        LET c == call[p]
        IN  (BuildDone(c) /\ Configured(c).err # NoErr) =>
                /\ c.ret.consumer.nil
                /\ c.ret.err = Configured(c).err
                /\ BuildSent(c) = <<>>
                /\ ~c.created
                /\ c.template \in {DefaultConsumer, SampledDefaultConsumer}
                /\ DefaultConsumer = DefaultConsumerValue
                /\ SampledDefaultConsumer = SampledDefaultConsumerValue

C4_Witness ==
    \E p \in Callers :
        /\ BuildDone(call[p])
        /\ Len(call[p].opts) = 2
        /\ Configured(call[p]).err # NoErr
        /\ Configured(call[p]).cfg # call[p].template
        /\ call[p].template = SampledDefaultConsumer

(* C6: for every handle, exactly one of IsPullMode and IsPushMode holds,
   IsPullMode holds exactly when the descriptor's delivery subject is empty,
   and NextSubject is prefix.stream.name for a pull-mode handle and the empty
   string for a push-mode one, so non-empty exactly in pull mode. *)
C6_Modes ==
    \A p \in Callers :
        LET h == handle[p]
        IN  ~h.nil =>
                /\ IsPullMode(h) # IsPushMode(h)
                /\ IsPullMode(h) <=> (h.cfg.Delivery = "")
                /\ (NextSubject(h) # "") <=> IsPullMode(h)
                /\ (h.cfg.Delivery = "") =>
                       NextSubject(h) = JetStreamRequestNextPre \o "." \o h.stream
                                            \o "." \o h.name
                /\ (h.cfg.Delivery # "") => NextSubject(h) = ""

C6_Witness ==
    \E p \in Callers :
        /\ ~handle[p].nil
        /\ handle[p].cfg.Delivery = "out"
        /\ IsPushMode(handle[p])
        /\ NextSubject(handle[p]) = ""
        /\ call[p].op = "Reset"

PushOnly == SubscribeVariants
PullOnly == {"NextMsgs", "NextMsg"}

\* a push-only or pull-only operation of caller p just returned
C7_Step(p) ==
    LET c == call'[p]
        h == handle[p]
    IN  (call'[p] # call[p] /\ c.op \in PushOnly \cup PullOnly) =>
            /\ handle'[p] = h
            /\ (c.op \in PushOnly /\ h.cfg.Delivery = "") =>
                   (c.ret.err # NoErr /\ c.sent = <<>> /\ reached'[p] = reached[p])
            /\ (c.op \in PullOnly /\ h.cfg.Delivery # "") =>
                   (c.ret.err # NoErr /\ c.sent = <<>> /\ reached'[p] = reached[p])
            /\ (c.sent # <<>>) => (c.op \in PushOnly <=> h.cfg.Delivery # "")

(* C7, as amended: a push-only operation on a pull-mode handle, and a
   pull-only operation on a push-mode handle, returns an error, hands nothing
   to the transport and leaves the handle as it was; an operation that does
   reach the transport is of the family of the handle's mode at that time. *)
C7_ModePreconditions == [][\A p \in Callers : C7_Step(p)]_vars

C7_Witness ==
    \E p \in Callers :
        /\ call[p].op \in PushOnly
        /\ call[p].pc = "done"
        /\ ~handle[p].nil
        /\ handle[p].cfg.Delivery = ""
        /\ call[p].ret.err # NoErr
        /\ "pull" \in reached[p]

(* C7, as claimed: the wrong-mode operations fail without reaching the
   transport, and over the life of a handle at most one of the two families
   ever reaches the transport. *)
C7_OneFamilyEver ==
    \A p \in Callers :
        LET c == call[p]
            h == handle[p]
        IN  /\ (c.pc = "done" /\ c.op \in PushOnly /\ h.cfg.Delivery = "") =>
                   (c.ret.err # NoErr /\ c.sent = <<>>)
            /\ (c.pc = "done" /\ c.op \in PullOnly /\ h.cfg.Delivery # "") =>
                   (c.ret.err # NoErr /\ c.sent = <<>>)
            /\ Cardinality(reached[p]) <= 1

\* the build of call c, its options valid, as of the step that made it call'[p]
C8_After(p) ==
    LET c    == call'[p]
        conf == Configured(c)
        bs   == BuildSent(c)
        key  == <<c.stream, conf.cfg.Durable>>
    IN  (call'[p] # call[p] /\ IsBuild(c) /\ conf.err = NoErr) =>
            /\ (MarshalErr(c.stream, conf.cfg) # NoErr) =>
                   /\ c.pc = "done"
                   /\ bs = <<>>
                   /\ c.ret = Returned(NoConsumer, MarshalErr(c.stream, conf.cfg))
            /\ (MarshalErr(c.stream, conf.cfg) = NoErr /\ c.pc = "done") =>
                   Cardinality(Creates(bs)) = 1
            /\ Cardinality(Creates(bs)) <= 1
            /\ (Creates(bs) # {}) =>
                   bs[1] = Sent("JetStreamCreateObservable", c.stream, "", conf.cfg)
            /\ (Infos(bs) # {}) =>
                   /\ c.created
                   /\ conf.cfg.Durable # ""
                   /\ Infos(bs) = {2}
                   /\ bs[2] = InfoRequest(c.stream, conf.cfg.Durable)
            /\ (c.pc = "done" /\ c.created /\ conf.cfg.Durable # "") => Infos(bs) = {2}
            /\ (~c.ret.consumer.nil) =>
                   /\ Infos(bs) = {2}
                   /\ c.ret.err = NoErr
                   /\ key \in Keys
                   /\ srv[key].exists
                   /\ c.ret.consumer = Consumer(conf.cfg.Durable, c.stream, srv[key].cfg)
                   /\ handle'[p] = c.ret.consumer
            /\ (c.pc = "done" /\ c.created /\ conf.cfg.Durable = "") =>
                   /\ Infos(bs) = {}
                   /\ c.ret = Returned(NoConsumer, NoErr)

(* C8, as amended: a build whose options all validate sends exactly one
   create request, or none when the request cannot be serialised, in which
   case it returns that error; a describe request is sent only after an OK
   create response and only for a non-empty durable name, keyed by the stream
   and that name, and the handle returned is the one that describe response
   populated; with no durable name and an OK create response no describe
   request is sent and the build returns no handle and no error. *)
C8_BuildProtocol == [][\A p \in Callers : C8_After(p)]_vars

C8_Witness ==
    \E p \in Callers :
        LET c == call[p]
        IN  /\ BuildDone(c)
            /\ c.op = "NewConsumerFromTemplate"
            /\ Configured(c).err = NoErr
            /\ Len(BuildSent(c)) = 2
            /\ ~c.ret.consumer.nil
            /\ c.ret.consumer.cfg.Delivery = "out"
            /\ handle[p] = c.ret.consumer

(* C8, as claimed: a build whose options all validate sends exactly one
   create request; a describe request only after an OK create response and
   only for a non-empty durable name; with no durable name it sends no
   describe request and returns no handle and no error. *)
C8_ExactlyOneCreate ==
    \A p \in Callers :
        LET c  == call[p]
            bs == BuildSent(c)
        IN  (BuildDone(c) /\ Configured(c).err = NoErr) =>
                /\ Cardinality(Creates(bs)) = 1
                /\ (Infos(bs) # {}) => (c.created /\ Configured(c).cfg.Durable # "")
                /\ (Configured(c).cfg.Durable = "") =>
                       (Infos(bs) = {} /\ c.ret = Returned(NoConsumer, NoErr))

(* C9, as amended: a build never returns a handle together with an error; a
   handle it returns was populated by a successful describe response for the
   stream and the durable name, after an OK create response.  When it returns
   no handle, a consumer was nevertheless created by it in two cases: the
   descriptor has no durable name (no error returned), or the describe request
   after the OK create response failed (error returned); otherwise nothing
   was created and an error is returned. *)
C9_BuildOutcomes ==
    \A p \in Callers :
        LET c == call[p]
        IN  BuildDone(c) =>
                /\ (~c.ret.consumer.nil) =>
                       /\ c.ret.err = NoErr
                       /\ c.created
                       /\ c.at = 81
                       /\ c.ret.consumer.name = c.cfg.Durable
                       /\ c.ret.consumer.stream = c.stream
                       /\ Infos(BuildSent(c)) = {2}
                /\ (c.ret.consumer.nil /\ c.created) =>
                       \/ (c.cfg.Durable = "" /\ c.ret.err = NoErr /\ c.at = 84)
                       \/ (c.cfg.Durable # "" /\ c.ret.err # NoErr /\ c.at = 81
                             /\ Infos(BuildSent(c)) = {2})
                /\ (c.ret.consumer.nil /\ ~c.created) => c.ret.err # NoErr

C9_Witness ==
    \E p \in Callers :
        LET c == call[p]
        IN  /\ BuildDone(c)
            /\ c.ret.consumer.nil
            /\ c.created
            /\ c.ret.err # NoErr
            /\ srv[<<c.stream, c.cfg.Durable>>] = Held(c.cfg)

(* C9, as claimed: a build returns a handle populated by a successful describe
   response, or it returns no handle and then created no consumer; a build
   that returns an error leaves no created consumer behind. *)
C9_NoPartialSuccess ==
    \A p \in Callers :
        LET c == call[p]
        IN  BuildDone(c) =>
                /\ \/ (~c.ret.consumer.nil /\ c.ret.err = NoErr /\ c.created)
                   \/ (c.ret.consumer.nil /\ ~c.created)
                /\ (c.ret.err # NoErr) => ~c.created

\* LoadOrNewConsumerFromTemplate whose load found no consumer, as of the step
\* that made it call'[p]
C10_After(p) ==
    LET c   == call'[p]
        d   == Configured(c).cfg.Durable
        key == <<c.stream, d>>
    IN  (/\ call'[p] # call[p]
         /\ c.op = "LoadOrNewConsumerFromTemplate"
         /\ c.loadFailed = "response") =>
            /\ IsBuild(c)
            /\ c.sent[1] = InfoRequest(c.stream, c.name)
            /\ (c.pc # "done") => (Configured(c).err = NoErr /\ c.cfg = Configured(c).cfg)
            /\ (c.pc = "done" /\ c.created /\ d = "") => c.ret = Returned(NoConsumer, NoErr)
            /\ (c.pc = "done" /\ c.created /\ d # "") =>
                   /\ c.sent[Len(c.sent)] = InfoRequest(c.stream, d)
                   /\ IF c.ret.consumer.nil
                      THEN c.ret.err # NoErr
                      ELSE /\ c.ret.err = NoErr
                           /\ key \in Keys
                           /\ c.ret.consumer = Consumer(d, c.stream, srv[key].cfg)
                           /\ (srv[key] = Held(Configured(c).cfg)) =>
                                  c.ret.consumer.cfg = Configured(c).cfg
                           /\ (c.ret.consumer.name = c.name) <=> (d = c.name)

(* C10, as amended: when the load of (stream, name) fails because no such
   consumer exists, LoadOrNewConsumerFromTemplate runs the build; when the
   create request succeeds and the options give a durable name d, it sends a
   describe request for (stream, d) and, when that succeeds, returns a handle
   for (stream, d), which is (stream, name) only when d = name, holding the
   descriptor of the describe response: the template plus the options when
   the service still holds what the build created.  When the describe request
   fails it returns no handle and the error; when the options give no durable
   name it returns no handle and no error. *)
C10_FallThrough == [][\A p \in Callers : C10_After(p)]_vars

C10_Witness ==
    \E p \in Callers :
        LET c == call[p]
        IN  /\ c.op = "LoadOrNewConsumerFromTemplate"
            /\ c.pc = "done"
            /\ c.loadFailed = "response"
            /\ c.created
            /\ c.name = "d2"
            /\ ~c.ret.consumer.nil
            /\ c.ret.consumer.name = "d1"
            /\ c.ret.consumer.cfg = Configured(c).cfg

(* C10, as claimed: when the load fails because no such consumer exists and
   the build's create request succeeds, LoadOrNewConsumerFromTemplate returns
   a handle for (stream, name) holding the template plus the options, whatever
   the options are. *)
C10_HandleForName ==
    \A p \in Callers :
        LET c == call[p]
        IN  (/\ c.op = "LoadOrNewConsumerFromTemplate"
             /\ c.pc = "done"
             /\ c.loadFailed = "response"
             /\ c.created) =>
                /\ ~c.ret.consumer.nil
                /\ c.ret.consumer.name = c.name
                /\ c.ret.consumer.stream = c.stream
                /\ c.ret.consumer.cfg = Configured(c).cfg

\* what NewConsumerFromTemplate, called with the arguments of call c, is at
\* when it has run up to its create request
DirectBuild(c) ==
    BuildStart(NewCall("NewConsumerFromTemplate", c.stream, ""),
               c.stream, c.template, c.opts)

\* call c without what tells a build LoadOrNewConsumerFromTemplate runs from
\* one the caller runs: the operation, the name, the load and its request
BuildPart(c) ==
    [c EXCEPT !.op = "NewConsumerFromTemplate", !.name = "", !.loadFailed = "",
              !.sent = BuildSent(c), !.buildAt = 1,
              !.replies = SubSeq(c.replies, c.buildAt, Len(c.replies))]

\* LoadOrNewConsumerFromTemplate, as of the step that made it call'[p]
C11_After(p) ==
    LET c   == call'[p]
        key == <<c.stream, c.name>>
    IN  (call'[p] # call[p] /\ c.op = "LoadOrNewConsumerFromTemplate") =>
            /\ c.sent[1] = InfoRequest(c.stream, c.name)
            /\ (c.loadFailed = "") =>
                   /\ c.pc = "done"
                   /\ c.at = 104
                   /\ c.sent = <<InfoRequest(c.stream, c.name)>>
                   /\ ~IsBuild(c)
                   /\ ~c.created
                   /\ key \in Keys
                   /\ srv[key].exists
                   /\ srv' = srv
                   /\ c.ret = Returned(Consumer(c.name, c.stream, srv[key].cfg), NoErr)
                   /\ handle'[p] = c.ret.consumer
            /\ (c.loadFailed # "") =>
                   /\ IsBuild(c)
                   /\ c.buildAt = 2
                   /\ (call[p].pc = "done") => BuildPart(c) = DirectBuild(c)
                   /\ (c.pc = "done") => c.at \in {58, 68, 73, 77, 81, 84}
                   /\ (Configured(c).err # NoErr) =>
                          c.ret = Returned(NoConsumer, Configured(c).err)

(* C11: LoadOrNewConsumerFromTemplate first sends the describe request of
   LoadConsumer(stream, name).  When the load succeeds it returns that handle
   with no error, sends nothing else and applies none of the options, so an
   invalid option goes unreported.  When the load fails, by a transport error,
   an error response or an unparsable response alike, it runs
   NewConsumerFromTemplate with the same stream, template and options, and
   what it returns is what that build returns. *)
C11_LoadOrBuild == [][\A p \in Callers : C11_After(p)]_vars

C11_Witness ==
    \E p \in Callers :
        LET c == call[p]
        IN  /\ c.op = "LoadOrNewConsumerFromTemplate"
            /\ c.pc = "done"
            /\ c.loadFailed = ""
            /\ Configured(c).err # NoErr
            /\ c.ret.err = NoErr
            /\ ~c.ret.consumer.nil

C11_WitnessFallback ==
    \E p \in Callers :
        LET c == call[p]
        IN  /\ c.op = "LoadOrNewConsumerFromTemplate"
            /\ c.pc = "done"
            /\ c.loadFailed = "parse"
            /\ c.at = 81
            /\ ~c.ret.consumer.nil

\* the requests of call c that failed: the transport returned an error, or
\* the response carries the error marker
FailedRequests(c) ==
    { i \in DOMAIN c.replies : Outcome(c.replies[i]) \in {"transport", "response"} }

\* the failed request i of call c was the last one and an error came back
ReturnedToCaller(c, i) ==
    /\ i = Len(c.sent)
    /\ c.pc = "done"
    /\ c.ret.err # NoErr
    /\ c.ret.consumer.nil

\* the describe request of the load that LoadOrNewConsumerFromTemplate starts with
IsFirstLoad(c, i) == c.op = "LoadOrNewConsumerFromTemplate" /\ i = 1

(* C12, as amended: in NewConsumerFromTemplate, LoadConsumer, Reset, State
   and Delete, and in the build LoadOrNewConsumerFromTemplate runs, a request
   that fails by a transport error or an error response is the operation's
   last request and the operation returns an error and no handle; so does
   NextMsgs when the transport returns an error.  The one failure that is not
   returned is that of the load LoadOrNewConsumerFromTemplate starts with:
   the operation goes on to the build, sends the build's requests and returns
   the build's result, which may carry no error. *)
C12_ErrorsReturned ==
    \A p \in Callers :
        LET c == call[p]
        IN  /\ Len(c.replies) = Len(c.sent)
            /\ \A i \in FailedRequests(c) :
                   IF IsFirstLoad(c, i)
                   THEN /\ IsBuild(c)
                        /\ c.loadFailed \in {"transport", "response"}
                        /\ (c.pc = "done" /\ Len(c.sent) = 1) => c.ret.err # NoErr
                   ELSE ReturnedToCaller(c, i)

C12_Witness ==
    \E p \in Callers :
        LET c == call[p]
        IN  /\ c.op = "LoadOrNewConsumerFromTemplate"
            /\ c.pc = "done"
            /\ FailedRequests(c) = {1, 3}
            /\ Len(c.sent) = 3
            /\ c.ret.err # NoErr

(* C12, as claimed: in every operation, a request that fails by a transport
   error or an error response is the operation's last request, and the
   operation returns an error. *)
C12_NoErrorSwallowed ==
    \A p \in Callers :
        LET c == call[p]
        IN  \A i \in FailedRequests(c) : ReturnedToCaller(c, i)

(* C13: Delete hands the transport exactly one request, the deletion request
   for the handle's stream and name, and returns by exactly one of four ways:
   the transport's error when the transport failed; the response's text when
   the response carries the error marker; no error when the response is the
   OK marker; an unknown-response error, unlike the other three, for any
   other response.  It returns no error only for an OK response. *)
C13_DeleteOutcomes ==
    \A p \in Callers :
        LET c == call[p]
            h == handle[p]
            m == c.replies[1]
        IN  (c.op = "Delete" /\ c.pc = "done") =>
                /\ ~h.nil
                /\ c.sent = <<Sent("JetStreamDeleteObservable", h.stream, h.name,
                                   ZeroConfig)>>
                /\ Len(c.replies) = 1
                /\ c.at \in {407, 411, 415, 418}
                /\ (c.at = 407) <=> (Outcome(m) = "transport")
                /\ (c.at = 411) <=> (Outcome(m) = "response")
                /\ (c.at = 415) <=> (m.err = NoErr /\ m.Data = OK)
                /\ (c.at = 407) => c.ret.err = m.err
                /\ (c.at = 411) => c.ret.err = m.Data
                /\ (c.at = 415) => c.ret.err = NoErr
                /\ (c.at = 418) =>
                       /\ c.ret.err = UnknownResponse(h.name, m.Data)
                       /\ c.ret.err \notin {NoErr, m.Data, TransportError.err}
                       /\ ~HasPrefix(c.ret.err, ErrPrefix)
                /\ (c.ret.err = NoErr) <=> (m.err = NoErr /\ m.Data = OK)

C13_Witness ==
    \E p \in Callers :
        LET c == call[p]
        IN  /\ c.op = "Delete"
            /\ c.pc = "done"
            /\ c.at = 418
            /\ c.replies[1].Data = "garbage"
            /\ c.ret.err # NoErr

C13_WitnessSuccess ==
    \E p \in Callers :
        LET c == call[p]
        IN  /\ c.op = "Delete"
            /\ c.pc = "done"
            /\ c.at = 415
            /\ ~srv[<<c.stream, c.name>>].exists

\* Reset on the handle of caller p, as of the step in which it ran
C14_Step(p) ==
    LET c   == call'[p]
        h   == handle[p]
        key == <<h.stream, h.name>>
        m   == c.replies[1]
    IN  (call'[p] # call[p] /\ c.op = "Reset") =>
            /\ ~h.nil
            /\ c.sent = <<InfoRequest(h.stream, h.name)>>
            /\ Len(c.replies) = 1
            /\ handle'[p].name = h.name
            /\ handle'[p].stream = h.stream
            /\ ~handle'[p].nil
            /\ srv' = srv
            /\ (c.ret.err = NoErr) <=> (m.err = NoErr /\ m.Data = "{...}")
            /\ (c.ret.err = NoErr) =>
                   /\ key \in Keys
                   /\ srv[key].exists
                   /\ handle'[p].cfg = srv[key].cfg
            /\ (c.ret.err # NoErr) => handle'[p] = h

(* C14: Reset sends one describe request, for the handle's own stream and
   name.  When it succeeds the handle's descriptor is the configuration of
   the response; when it fails, by a transport error, an error response or an
   unparsable response, the descriptor is as it was.  The handle's name and
   stream are never changed. *)
C14_Reset == [][\A p \in Callers : C14_Step(p)]_vars

\* a Reset that changed the descriptor
C14_Witness ==
    \E p \in Callers :
        LET c == call[p]
        IN  /\ c.op = "Reset"
            /\ c.pc = "done"
            /\ c.ret.err = NoErr
            /\ handle[p].cfg.Delivery = "out"
            /\ handle[p].cfg = srv[<<c.stream, c.name>>].cfg
            /\ "pull" \in reached[p]

\* a Reset that failed on a handle whose descriptor the service no longer holds
C14_WitnessFailure ==
    \E p \in Callers :
        LET c == call[p]
        IN  /\ c.op = "Reset"
            /\ c.pc = "done"
            /\ c.replies[1].Data = "garbage"
            /\ c.ret.err # NoErr
            /\ handle[p].cfg.Delivery = "out"
            /\ ~srv[<<c.stream, c.name>>].exists

\* State on the handle of caller p, as of the step in which it ran
C15_Step(p) ==
    LET c   == call'[p]
        h   == handle[p]
        key == <<h.stream, h.name>>
        m   == c.replies[1]
    IN  (call'[p] # call[p] /\ c.op = "State") =>
            /\ ~h.nil
            /\ c.sent = <<InfoRequest(h.stream, h.name)>>
            /\ Len(c.replies) = 1
            /\ handle'[p] = h
            /\ srv' = srv
            /\ (c.ret.err = NoErr) <=> (m.err = NoErr /\ m.Data = "{...}")
            /\ (c.ret.err = NoErr) => (key \in Keys /\ srv[key].exists /\ c.stats = LiveState)
            /\ (c.ret.err # NoErr) => c.stats = ZeroInfo.State

(* C15: State sends a describe request for the handle's stream and name and
   returns the operational state of the response, the zero state with the
   error when the request fails.  Successful or not, it leaves the handle's
   descriptor, name and stream as they were, also when the configuration in
   the response is not the one the handle holds. *)
C15_State == [][\A p \in Callers : C15_Step(p)]_vars

C15_Witness ==
    \E p \in Callers :
        LET c == call[p]
        IN  /\ c.op = "State"
            /\ c.pc = "done"
            /\ c.ret.err = NoErr
            /\ c.stats = LiveState
            /\ srv[<<c.stream, c.name>>].exists
            /\ srv[<<c.stream, c.name>>].cfg # handle[p].cfg

(***************************************************************************)
(* Independence of the options.                                            *)
(***************************************************************************)
Fields == DOMAIN ZeroConfig

\* the descriptor field an option is named for
FieldOf(opt) ==
    CASE opt.op = "DeliverySubject"       -> "Delivery"
      [] opt.op = "DurableName"           -> "Durable"
      [] opt.op = "StartAtSequence"       -> "MsgSetSeq"
      [] opt.op \in {"StartAtTime", "StartAtTimeDelta"} -> "StartTime"
      [] opt.op = "DeliverAllAvailable"   -> "DeliverAll"
      [] opt.op = "StartWithLastReceived" -> "DeliverLast"
      [] opt.op \in {"AcknowledgeNone", "AcknowledgeAll", "AcknowledgeExplicit"}
                                          -> "AckPolicy"
      [] opt.op = "AckWait"               -> "AckWait"
      [] opt.op = "MaxDeliveryAttempts"   -> "MaxDeliver"
      [] opt.op = "FilterStreamBySubject" -> "FilterSubject"
      [] opt.op \in {"ReplayInstantly", "ReplayAsReceived"} -> "ReplayPolicy"
      [] opt.op = "SamplePercent"         -> "SampleFrequency"

\* l with its options i and i + 1 in the other order
Swapped(l, i) ==
    [k \in DOMAIN l |-> IF k = i THEN l[i + 1] ELSE IF k = i + 1 THEN l[i] ELSE l[k]]

\* the fields the options of l up to the end of the call are named for
Named(l) == { FieldOf(l[k]) : k \in DOMAIN l }

(* C16: an option that succeeds changes no field of the descriptor but the one
   it is named for; so when all the options of a list succeed, the fields
   none of them is named for are those of the template, and two neighbouring
   options named for different fields can be applied in the other order, at
   the same clock reading, with the same descriptor as the result. *)
C16_Independent ==
    (optPc = "returned" /\ optRet.err = NoErr) =>
        /\ \A f \in Fields \ Named(optList) : optRet.cfg[f] = optTemplate[f]
        /\ \A i \in 1 .. (Len(optList) - 1) :
               (FieldOf(optList[i]) # FieldOf(optList[i + 1])) =>
                   NewConsumerConfiguration(optTemplate, Swapped(optList, i), now) = optRet

\* two options named for different fields that both changed the template
C16_Witness ==
    /\ optPc = "returned"
    /\ optRet.err = NoErr
    /\ Len(optList) = 2
    /\ optList[1].op = "MaxDeliveryAttempts"
    /\ optList[2].op = "AcknowledgeNone"
    /\ optRet.cfg.MaxDeliver # optTemplate.MaxDeliver
    /\ optRet.cfg.AckPolicy # optTemplate.AckPolicy
    /\ NewConsumerConfiguration(optTemplate, Swapped(optList, 1), now) = optRet

\* LoadConsumer called by caller p, as of the step in which it ran
C18_Step(p) ==
    LET c   == call'[p]
        key == <<c.stream, c.name>>
        m   == c.replies[1]
    IN  (call'[p] # call[p] /\ c.op = "LoadConsumer") =>
            /\ c.pc = "done"
            /\ c.sent = <<InfoRequest(c.stream, c.name)>>
            /\ Len(c.replies) = 1
            /\ srv' = srv
            /\ c.ret.consumer.nil <=> (c.ret.err # NoErr)
            /\ (c.ret.err = NoErr) <=> (m.err = NoErr /\ m.Data = "{...}")
            /\ (c.ret.err = NoErr) =>
                   /\ key \in Keys
                   /\ srv[key].exists
                   /\ c.ret.consumer = Consumer(c.name, c.stream, srv[key].cfg)
                   /\ c.ret.consumer.cfg # ZeroConfig
                   /\ handle'[p] = c.ret.consumer
            /\ (c.ret.err # NoErr) =>
                   /\ c.ret.consumer = NoConsumer
                   /\ handle'[p] = handle[p]
                   /\ Outcome(m) = "transport" => c.ret.err = m.err
                   /\ Outcome(m) = "response" => c.ret.err = m.Data

(* C18: LoadConsumer(stream, name) returns a handle or an error and never
   both or neither.  On a successful describe response it returns, with no
   error, a handle whose name and stream are its arguments and whose
   descriptor is the configuration of the response; on a transport error, an
   error response or an unparsable response it returns no handle and the
   error, never a handle whose descriptor was not loaded. *)
C18_Load == [][\A p \in Callers : C18_Step(p)]_vars

C18_Witness ==
    \E p \in Callers :
        LET c == call[p]
        IN  /\ c.op = "LoadConsumer"
            /\ c.pc = "done"
            /\ c.ret.err = NoErr
            /\ c.ret.consumer = Consumer("d1", "ORDERS", srv[<<"ORDERS", "d1">>].cfg)
            /\ c.ret.consumer.cfg.Delivery = "out"
            /\ handle[p] = c.ret.consumer

C18_WitnessFailure ==
    \E p \in Callers :
        LET c == call[p]
        IN  /\ c.op = "LoadConsumer"
            /\ c.pc = "done"
            /\ c.replies[1].Data = "garbage"
            /\ srv[<<"ORDERS", "d1">>].exists
            /\ c.name = "d1"
            /\ c.ret.consumer.nil
            /\ c.ret.err # NoErr

\* the operations that hand a caller a handle or change the one it has
HandleOps == {"NewConsumerFromTemplate", "LoadConsumer", "Reset"}

\* a step in which nothing of a caller other than p changed, and in which
\* p's handle changed only as an operation of p that returned stored it
C17_Step(p) ==
    /\ \A q \in Callers \ {p} : call'[q] = call[q] /\ handle'[q] = handle[q]
    /\ (handle'[p] # handle[p]) =>
           /\ call'[p].pc = "done"
           /\ call'[p].op \in HandleOps
           /\ (call'[p].op = "Reset") =>
                  /\ ~handle[p].nil
                  /\ handle'[p].name = handle[p].name
                  /\ handle'[p].stream = handle[p].stream
           /\ (call'[p].op # "Reset") => handle'[p] = call'[p].ret.consumer

(* C17: with callers running builds, loads, resets and state queries
   concurrently, each on its own handle, a handle's name, stream and
   descriptor change only in a step of an operation its own caller invoked,
   and DefaultConsumer and SampledDefaultConsumer keep their values. *)
C17_Isolation ==
    [][/\ \E p \in Callers : C17_Step(p)
       /\ DefaultConsumer' = DefaultConsumerValue
       /\ SampledDefaultConsumer' = SampledDefaultConsumerValue]_vars

\* both callers in the middle of a build, holding different descriptors of
\* the same consumer, after one caller's build replaced what the other loaded
C17_Witness ==
    /\ call["c1"].pc = "reload"
    /\ call["c2"].pc = "create"
    /\ ~handle["c1"].nil
    /\ ~handle["c2"].nil
    /\ handle["c1"].name = handle["c2"].name
    /\ handle["c1"].cfg # handle["c2"].cfg
    /\ handle["c1"].cfg # srv[<<"ORDERS", "d1">>].cfg
    /\ DefaultConsumer = DefaultConsumerValue

====
